---------------------------- MODULE Spec2Model ----------------------------
(***************************************************************************)
(* A model of occur.py: the Completeness object (injection/recovery grid   *)
(* and its cached interpolator), lngrid, the binned Hierarchy model and    *)
(* the PowerLaw model.                                                     *)
(*                                                                         *)
(* Numbers.  A float is a record [k, n, d]: k = "fin" is the rational n/d  *)
(* in lowest terms with d > 0; k = "nan", "inf", "ninf" are the IEEE       *)
(* specials numpy produces (0/0, x/0, log 0).  Structural equality is      *)
(* numerical equality.  Rounding is not modelled.                          *)
(*                                                                         *)
(* Coordinates.  A positive quantity (semi-major axis, mass) is held by    *)
(* its natural logarithm, a rational; np.log/np.exp/np.log10/10** are      *)
(* monotone, so every comparison the code makes between such quantities    *)
(* is the comparison of their logarithms.                                  *)
(***************************************************************************)
EXTENDS Integers, Sequences, FiniteSets, TLC

VARIABLES
  recoveries,    \* Completeness.recoveries: the injection/recovery table
  grid,          \* Completeness.grid: None or (xgrid, ygrid, z), with the identity of z
  interpolator,  \* Completeness.interpolator: None or the grid arrays it references
  hier,          \* the Hierarchy instance (None before construction)
  plaw,          \* the PowerLaw instance (None before construction)
  walkers,       \* the theta arrays the sampler holds and passes to lnpost
  ret            \* what the last call returned

vars == <<recoveries, grid, interpolator, hier, plaw, walkers, ret>>

---------------------------------------------------------------------------
(* Floats *)

RECURSIVE GCD(_, _)
GCD(a, b) == IF b = 0 THEN a ELSE GCD(b, a % b)

Abs(x) == IF x < 0 THEN -x ELSE x

Fin(n, d) ==
  LET s == IF d < 0 THEN -1 ELSE 1
      g == GCD(Abs(n), Abs(d))
  IN  [k |-> "fin", n |-> (s * n) \div g, d |-> (s * d) \div g]

Num(n) == Fin(n, 1)

NaN  == [k |-> "nan",  n |-> 0, d |-> 1]
Inf  == [k |-> "inf",  n |-> 0, d |-> 1]
NInf == [k |-> "ninf", n |-> 0, d |-> 1]

isfinite(a) == a.k = "fin"
isnan(a)    == a.k = "nan"

\* -1, 0, 1 for a value that is not NaN
Sign(a) ==
  CASE a.k = "inf"  -> 1
    [] a.k = "ninf" -> -1
    [] OTHER        -> IF a.n > 0 THEN 1 ELSE IF a.n < 0 THEN -1 ELSE 0

Signed(s) == IF s > 0 THEN Inf ELSE NInf

Add(a, b) ==
  CASE isnan(a) \/ isnan(b)        -> NaN
    [] isfinite(a) /\ isfinite(b)  ->
         LET g == GCD(a.d, b.d)
         IN  Fin(a.n * (b.d \div g) + b.n * (a.d \div g), (a.d \div g) * b.d)
    [] isfinite(a)                 -> b
    [] isfinite(b)                 -> a
    [] OTHER                       -> IF a = b THEN a ELSE NaN

Neg(a) ==
  CASE isnan(a)    -> NaN
    [] isfinite(a) -> Fin(-a.n, a.d)
    [] OTHER       -> Signed(-Sign(a))

Sub(a, b) == Add(a, Neg(b))

Mul(a, b) ==
  CASE isnan(a) \/ isnan(b)        -> NaN
    [] isfinite(a) /\ isfinite(b)  ->
         Fin(a.n * b.n, a.d * b.d)
    [] OTHER                       ->
         IF Sign(a) * Sign(b) = 0 THEN NaN ELSE Signed(Sign(a) * Sign(b))

\* numpy float division: x/0 is +-inf, 0/0 is nan
Div(a, b) ==
  CASE isnan(a) \/ isnan(b)        -> NaN
    [] isfinite(a) /\ isfinite(b)  ->
         IF b.n # 0 THEN Fin(a.n * b.d, a.d * b.n)
         ELSE IF a.n = 0 THEN NaN ELSE Signed(Sign(a))
    [] isfinite(a)                 -> Num(0)
    [] isfinite(b)                 ->
         IF Sign(b) >= 0 THEN a ELSE Signed(-Sign(a))
    [] OTHER                       -> NaN

\* comparisons; any comparison with NaN is False
Less(a, b) ==
  CASE isnan(a) \/ isnan(b)        -> FALSE
    [] isfinite(a) /\ isfinite(b)  ->
         LET g == GCD(a.d, b.d)
         IN  a.n * (b.d \div g) < b.n * (a.d \div g)
    [] OTHER                       -> a # b /\ (a.k = "ninf" \/ b.k = "inf")

Leq(a, b)     == Less(a, b) \/ (~isnan(a) /\ a = b)
Greater(a, b) == Less(b, a)
Geq(a, b)     == Leq(b, a)

Zero == Num(0)
One  == Num(1)

RECURSIVE SumRange(_, _, _)
SumRange(s, lo, hi) ==
  IF lo > hi THEN Zero
  ELSE IF lo = hi THEN s[lo]
  ELSE Add(SumRange(s, lo, (lo + hi) \div 2), SumRange(s, ((lo + hi) \div 2) + 1, hi))

\* np.sum of a sequence of floats
SumSeq(s) == SumRange(s, 1, Len(s))

\* np.amax of a non-empty collection: NaN if any element is NaN
AMax(S) ==
  IF \E v \in S : isnan(v) THEN NaN
  ELSE CHOOSE m \in S : \A v \in S : Leq(v, m)

\* np.sqrt of a count; the populations of the model give perfect squares only
sqrt(n) == Num(CHOOSE r \in 0..n : r * r = n)

None == [call |-> "none"]

\* the element of a one-element set: The({f(x) : x \in {e}}) is f(e) with e
\* computed once, as a local variable of the code is
The(S) == CHOOSE x \in S : TRUE

---------------------------------------------------------------------------
(* lngrid *)

\* the mass-major order a swapped pair of loops would give
lngrid_massmajor(lna1, lna2, lnM1, lnM2, resa, resm) ==
  LET dlna == Div(Sub(lna2, lna1), Num(resa))
      dlnM == Div(Sub(lnM2, lnM1), Num(resm))
  IN  [n \in 1..(resa * resm) |->
         LET i == (n - 1) % resa
             j == (n - 1) \div resa
         IN  << <<Add(lna1, Mul(Num(i), dlna)), Add(lna1, Mul(Num(i + 1), dlna))>>,
                <<Add(lnM1, Mul(Num(j), dlnM)), Add(lnM1, Mul(Num(j + 1), dlnM))>> >>]

\* lngrid(min_a, max_a, min_M, max_M, resa, resm), on the logarithms of its
\* four limits; bin n (1-based) is the (n-1)-th element appended
lngrid(lna1, lna2, lnM1, lnM2, resa, resm) ==
  LET dlna == Div(Sub(lna2, lna1), Num(resa))
      dlnM == Div(Sub(lnM2, lnM1), Num(resm))
  IN  [n \in 1..(resa * resm) |->
         LET i == (n - 1) \div resm
             j == (n - 1) % resm
         IN  << <<Add(lna1, Mul(Num(i), dlna)), Add(lna1, Mul(Num(i + 1), dlna))>>,
                <<Add(lnM1, Mul(Num(j), dlnM)), Add(lnM1, Mul(Num(j + 1), dlnM))>> >>]

MaxRes == 3
LnLimits == {Num(-1), Num(0), Num(1), Num(2)}

InitLngrid ==
  /\ recoveries = None /\ grid = None /\ interpolator = None
  /\ hier = None /\ plaw = None /\ walkers = None
  /\ ret = None

CallLngrid ==
  /\ ret = None
  /\ \E lna1 \in LnLimits, lna2 \in LnLimits, lnM1 \in LnLimits, lnM2 \in LnLimits,
        resa \in 1..MaxRes, resm \in 1..MaxRes :
          ret' = [call |-> "lngrid",
                  args |-> [lna1 |-> lna1, lna2 |-> lna2, lnM1 |-> lnM1, lnM2 |-> lnM2,
                            resa |-> resa, resm |-> resm],
                  bins |-> lngrid(lna1, lna2, lnM1, lnM2, resa, resm)]
  /\ UNCHANGED <<recoveries, grid, interpolator, hier, plaw, walkers>>

NextLngrid == CallLngrid

SpecLngrid == InitLngrid /\ [][NextLngrid]_vars

\* C4: for min < max and positive integer resolutions lngrid returns resa*resm
\* bins with low < high; bin i*resm + j holds axis division i and mass division
\* j; along each dimension the divisions run from ln min to ln max, each one
\* starting where the previous one ends.
C4_LngridTiles ==
  (ret.call = "lngrid" /\ Less(ret.args.lna1, ret.args.lna2)
                       /\ Less(ret.args.lnM1, ret.args.lnM2)) =>
    LET a    == ret.args
        bins == ret.bins
        bin(i, j) == bins[i * a.resm + j + 1]
        adiv(i) == bin(i, 0)[1]
        mdiv(j) == bin(0, j)[2]
    IN  /\ DOMAIN bins = 1..(a.resa * a.resm)
        /\ \A n \in DOMAIN bins : Less(bins[n][1][1], bins[n][1][2])
                               /\ Less(bins[n][2][1], bins[n][2][2])
        /\ \A i \in 0..(a.resa - 1), j \in 0..(a.resm - 1) :
             bin(i, j) = <<adiv(i), mdiv(j)>>
        /\ adiv(0)[1] = a.lna1 /\ adiv(a.resa - 1)[2] = a.lna2
        /\ mdiv(0)[1] = a.lnM1 /\ mdiv(a.resm - 1)[2] = a.lnM2
        /\ \A i \in 0..(a.resa - 2) : adiv(i)[2] = adiv(i + 1)[1]
        /\ \A j \in 0..(a.resm - 2) : mdiv(j)[2] = mdiv(j + 1)[1]

C4_Witness ==
  /\ ret.call = "lngrid"
  /\ ret.args.resa = 2 /\ ret.args.resm = 3
  /\ Less(ret.args.lna1, ret.args.lna2) /\ Less(ret.args.lnM1, ret.args.lnM2)

---------------------------------------------------------------------------
(* Completeness *)

RECURSIVE SumOver(_, _)
\* the sum of the natural numbers f[p] over the finite set S
SumOver(S, f) ==
  IF S = {} THEN 0
  ELSE LET p == CHOOSE q \in S : TRUE IN f[p] + SumOver(S \ {p}, f)

\* np.logspace(log10(lo), log10(hi), n), on logarithms: n evenly spaced points
LogSpace(lo, hi, n) ==
  [k \in 1..n |->
     IF n = 1 THEN lo
     ELSE Add(lo, Mul(Num(k - 1), Div(Sub(hi, lo), Num(n - 1))))]

MinBox == 10

\* one cell z[j, i] of completeness_grid, with the coverage test on the masses
\* of the trials in the axis window (xbox) left out
GridCellNoCoverage(rows, x, y, xhalf, yhalf) ==
  LET inx(p) == Leq(Num(p[1]), Add(x, xhalf)) /\ Geq(Num(p[1]), Sub(x, xhalf))
      iny(p) == Leq(Num(p[2]), Add(y, yhalf)) /\ Geq(Num(p[2]), Sub(y, yhalf))
      box    == {p \in DOMAIN rows : inx(p) /\ iny(p)}
      nall   == SumOver(box, [p \in box |-> rows[p].n])
      ngood  == SumOver(box, [p \in box |-> rows[p].good])
  IN  IF nall > MinBox THEN Fin(ngood, nall) ELSE NaN

\* one cell z[j, i] of completeness_grid for the grid point (x, y); rows maps a
\* trial position to the number of trials injected there and how many of them
\* were recovered
GridCell(rows, x, y, xhalf, yhalf) ==
  LET inx(p) == Leq(Num(p[1]), Add(x, xhalf)) /\ Geq(Num(p[1]), Sub(x, xhalf))
      iny(p) == Leq(Num(p[2]), Add(y, yhalf)) /\ Geq(Num(p[2]), Sub(y, yhalf))
      xbox   == {p \in DOMAIN rows : rows[p].n > 0 /\ inx(p)}
      box    == {p \in DOMAIN rows : inx(p) /\ iny(p)}
      nall   == SumOver(box, [p \in box |-> rows[p].n])
      ngood  == SumOver(box, [p \in box |-> rows[p].good])
  IN  IF \/ xbox = {}
         \/ \A p \in xbox : Greater(y, Num(p[2]))    \* y > max(xbox)
         \/ \A p \in xbox : Less(y, Num(p[2]))       \* y < min(xbox)
      THEN NaN
      ELSE IF nall > MinBox THEN Fin(ngood, nall) ELSE NaN

\* Completeness.completeness_grid(xlim, ylim, resolution, xlogwin, ylogwin):
\* the new value of self.grid
completeness_grid(rec, xlim, ylim, resolution, xlogwin, ylogwin) ==
  LET xgrid == LogSpace(xlim[1], xlim[2], resolution)
      ygrid == LogSpace(ylim[1], ylim[2], resolution)
      xhalf == Div(xlogwin, Num(2))
      yhalf == Div(ylogwin, Num(2))
  IN  [call  |-> "grid",
       xlim  |-> xlim,
       ylim  |-> ylim,
       xgrid |-> xgrid,
       ygrid |-> ygrid,
       z     |-> [c \in (1..resolution) \X (1..resolution) |->
                    GridCell(rec.rows, xgrid[c[2]], ygrid[c[1]], xhalf, yhalf)]]

\* self.completeness.grid[2][np.isnan(self.completeness.grid[2])] = 1.
FillNaN(g) == [g EXCEPT !.z = [c \in DOMAIN g.z |-> IF isnan(g.z[c]) THEN One ELSE g.z[c]]]

FillValue == Fin(1, 1000)

\* RegularGridInterpolator((grid[0], grid[1]), grid[2].T, bounds_error=False,
\* fill_value=0.001): the arrays the interpolator reads.  No operation of the
\* program writes to a z array after an interpolator was built on it (every
\* NaN fill follows a completeness_grid call, which allocates a new z), so the
\* reference is held as the value.
BuildInterpolator(g) ==
  [call |-> "interpolator", xlim |-> g.xlim, ylim |-> g.ylim,
   xgrid |-> g.xgrid, ygrid |-> g.ygrid, z |-> g.z]

\* the cell of a 1-d grid used for x: searchsorted(grid, x) - 1 clipped to
\* 0..len-2, here 1-based
FindIndex(g, x) ==
  LET below == Cardinality({k \in DOMAIN g : Less(g[k], x)})
  IN  IF below < 1 THEN 1 ELSE IF below > Len(g) - 1 THEN Len(g) - 1 ELSE below

\* self.interpolator((x, y)): the fill value outside the grid, else the
\* bilinear combination of the four corners of the cell; the weights are taken
\* in the coordinates of the model (logarithms)
Evaluate(itp, x, y) ==
  LET nx == Len(itp.xgrid)
      ny == Len(itp.ygrid)
  IN  IF \/ Less(x, itp.xgrid[1]) \/ Greater(x, itp.xgrid[nx])
         \/ Less(y, itp.ygrid[1]) \/ Greater(y, itp.ygrid[ny])
      THEN FillValue
      ELSE LET i  == FindIndex(itp.xgrid, x)
               j  == FindIndex(itp.ygrid, y)
               t  == Div(Sub(x, itp.xgrid[i]), Sub(itp.xgrid[i + 1], itp.xgrid[i]))
               u  == Div(Sub(y, itp.ygrid[j]), Sub(itp.ygrid[j + 1], itp.ygrid[j]))
               t1 == Sub(One, t)
               u1 == Sub(One, u)
           IN  Add(Add(Mul(Mul(t1, u1), itp.z[<<j, i>>]),
                       Mul(Mul(t, u1), itp.z[<<j, i + 1>>])),
                   Add(Mul(Mul(t1, u), itp.z[<<j + 1, i>>]),
                       Mul(Mul(t, u), itp.z[<<j + 1, i + 1>>])))

\* Completeness.interpolate(x, y, refresh): self.interpolator after the call
\* (g is self.grid, which the callers of the model have built)
interpolator_after(itp, g, refresh) ==
  IF itp = None \/ refresh THEN BuildInterpolator(g) ELSE itp

GridRes == 3
LogWin  == 2
AxisLim == <<Num(0), Num(2 * (GridRes - 1))>>
MassLims == { <<Num(0), Num(GridRes - 1)>>, <<Num(0), Num(2 * (GridRes - 1))>> }

TrialPos   == {0, 3} \X {0, 1, 2}
TrialCells == { [n |-> 0, good |-> 0], [n |-> MinBox, good |-> 5],
                [n |-> MinBox + 1, good |-> 0], [n |-> MinBox + 1, good |-> MinBox + 1] }
RecoveryTables == { [call |-> "table", rows |-> r] : r \in [TrialPos -> TrialCells] }

InitGrid ==
  /\ recoveries \in RecoveryTables
  /\ grid = None /\ interpolator = None
  /\ hier = None /\ plaw = None /\ walkers = None
  /\ ret = None

CallCompletenessGrid ==
  /\ \E ylim \in MassLims :
       grid' = completeness_grid(recoveries, AxisLim, ylim, GridRes, Num(LogWin), Num(LogWin))
  /\ UNCHANGED <<recoveries, interpolator, hier, plaw, walkers, ret>>

NextGrid == CallCompletenessGrid

SpecGrid == InitGrid /\ [][NextGrid]_vars

\* the number of trials, and of recovered trials, in the local box of grid
\* cell c, counted from the table
BoxAll(c) ==
  LET h == Div(Num(LogWin), Num(2))
      box == {p \in TrialPos :
                /\ Leq(Sub(grid.xgrid[c[2]], h), Num(p[1])) /\ Leq(Num(p[1]), Add(grid.xgrid[c[2]], h))
                /\ Leq(Sub(grid.ygrid[c[1]], h), Num(p[2])) /\ Leq(Num(p[2]), Add(grid.ygrid[c[1]], h))}
  IN  [all  |-> SumOver(box, [p \in box |-> recoveries.rows[p].n]),
       good |-> SumOver(box, [p \in box |-> recoveries.rows[p].good])]

\* whether the mass of grid cell c lies within the masses of the trials whose
\* axis is in the cell's axis window
Covered(c) ==
  LET h == Div(Num(LogWin), Num(2))
      xbox == {p \in TrialPos :
                /\ recoveries.rows[p].n > 0
                /\ Leq(Sub(grid.xgrid[c[2]], h), Num(p[1])) /\ Leq(Num(p[1]), Add(grid.xgrid[c[2]], h))}
  IN  /\ \E p \in xbox : Leq(Num(p[2]), grid.ygrid[c[1]])
      /\ \E p \in xbox : Geq(Num(p[2]), grid.ygrid[c[1]])

\* C3 as stated: after completeness_grid a cell with 10 or fewer trials in its
\* box is NaN and a cell with more than 10 holds recovered/all, in [0,1].
C3_AsStated ==
  grid # None =>
    \A c \in DOMAIN grid.z :
      IF BoxAll(c).all <= MinBox THEN isnan(grid.z[c])
      ELSE /\ grid.z[c] = Fin(BoxAll(c).good, BoxAll(c).all)
           /\ Leq(Zero, grid.z[c]) /\ Leq(grid.z[c], One)

\* C3 amended: a cell with 10 or fewer trials in its box is NaN; a cell with
\* more than 10 holds recovered/all, in [0,1], when its mass lies within the
\* masses of the trials in its axis window, and is NaN otherwise.
C3_GridCells ==
  grid # None =>
    \A c \in DOMAIN grid.z :
      IF BoxAll(c).all <= MinBox \/ ~Covered(c) THEN isnan(grid.z[c])
      ELSE /\ grid.z[c] = Fin(BoxAll(c).good, BoxAll(c).all)
           /\ Leq(Zero, grid.z[c]) /\ Leq(grid.z[c], One)

C3_Witness ==
  /\ grid # None
  /\ \E c \in DOMAIN grid.z : BoxAll(c).all > MinBox /\ Covered(c) /\ isfinite(grid.z[c])
                              /\ Less(Zero, grid.z[c]) /\ Less(grid.z[c], One)
  /\ \E c \in DOMAIN grid.z : BoxAll(c).all > MinBox /\ ~Covered(c)
  /\ \E c \in DOMAIN grid.z : BoxAll(c).all = MinBox /\ Covered(c)

---------------------------------------------------------------------------
(* Hierarchy *)

RECURSIVE Sorted(_)
\* np.unique of a set of floats: its elements in increasing order
Sorted(S) ==
  IF S = {} THEN <<>>
  ELSE LET m == CHOOSE x \in S : \A y \in S : Leq(x, y)
       IN  <<m>> \o Sorted(S \ {m})

\* the middle value of an odd number of samples (pop.median())
Median(s) ==
  CHOOSE v \in {s[k] : k \in DOMAIN s} :
    /\ 2 * Cardinality({k \in DOMAIN s : Less(s[k], v)}) < Len(s)
    /\ 2 * Cardinality({k \in DOMAIN s : Greater(s[k], v)}) < Len(s)

\* the res x res midpoint sum of the completeness over bin binn, weighted by
\* area/res**2
Qint(itp, binn, area, res) ==
  SumSeq([c \in 1..(res * res) |->
    LET i == (c - 1) \div res
        j == (c - 1) % res
        lna_av == Add(binn[1][1], Mul(Add(Fin(i, res), Fin(1, 2 * res)),
                                      Sub(binn[1][2], binn[1][1])))
        lnm_av == Add(binn[2][1], Mul(Add(Fin(j, res), Fin(1, 2 * res)),
                                      Sub(binn[2][2], binn[2][1])))
    IN  Mul(Div(area, Num(res * res)), Evaluate(itp, lna_av, lnm_av))])

\* Hierarchy.__init__ after its completeness_grid call and NaN fill: g is the
\* filled grid and itp the interpolator its first interpolate call leaves
HierarchyOn(g, itp, pop, bins, res, nstars, mass_lim, fraction) ==
  LET lna_edges == Sorted(UNION {{bins[n][1][1], bins[n][1][2]} : n \in DOMAIN bins})
      lnm_edges == Sorted(UNION {{bins[n][2][1], bins[n][2][2]} : n \in DOMAIN bins})
      bin_areas == [n \in DOMAIN bins |->
                      Mul(Sub(bins[n][1][2], bins[n][1][1]),
                          Sub(bins[n][2][2], bins[n][2][1]))]
  IN  [grid |-> g,
       interpolator |-> itp,
       hier |-> [call      |-> "Hierarchy",
                 pop       |-> pop,
                 res       |-> res,
                 bins      |-> bins,
                 nbins     |-> Len(bins),
                 lna_edges |-> lna_edges,
                 lnm_edges |-> lnm_edges,
                 nabins    |-> Len(lna_edges) - 1,
                 nmbins    |-> Len(lnm_edges) - 1,
                 bin_areas |-> bin_areas,
                 Qints     |-> [n \in DOMAIN bins |-> Qint(itp, bins[n], bin_areas[n], res)],
                 nsamples  |-> IF pop = <<>> THEN 0 ELSE Len(pop[1].samples),
                 nstars    |-> IF nstars # 0 THEN nstars
                               ELSE Cardinality({pop[p].star : p \in DOMAIN pop}),
                 pop_med   |-> [p \in DOMAIN pop |->
                                  << Median([k \in DOMAIN pop[p].samples |-> pop[p].samples[k][1]]),
                                     Median([k \in DOMAIN pop[p].samples |-> pop[p].samples[k][2]]) >>],
                 fraction  |-> fraction,
                 mass_lim  |-> mass_lim,
                 mlvalues  |-> <<>>,
                 ceiling   |-> None]]

\* Hierarchy.__init__: the new values of completeness.grid,
\* completeness.interpolator and the instance.  pop is the population: a
\* sequence of planets, each with its star and its posterior samples, a
\* sequence of <<ln a, ln M>>.
HierarchyInit(rec, itp0, pop, bins, res, nstars, mass_lim, fraction, gridres, logwin, xlim) ==
  The({ HierarchyOn(g, interpolator_after(itp0, g, FALSE), pop, bins, res, nstars,
                    mass_lim, fraction) :
        g \in {FillNaN(completeness_grid(rec, xlim, mass_lim, gridres, logwin, logwin))} })

Filler == Fin(1, 100)

\* mlvalues[np.isnan(mlvalues)] = 0.01; mlvalues[mlvalues == 0] = 0.01
Floor(v) == IF isnan(v) \/ v = Zero THEN Filler ELSE v

\* the two entries [ml, uml] max_like appends for bin n
MlRow(h, n) ==
  LET binn == h.bins[n]
      nplanets == Cardinality({p \in DOMAIN h.pop_med :
                     /\ Geq(h.pop_med[p][1], binn[1][1]) /\ Less(h.pop_med[p][1], binn[1][2])
                     /\ Geq(h.pop_med[p][2], binn[2][1]) /\ Less(h.pop_med[p][2], binn[2][2])})
      ml  == Div(Num(nplanets), h.Qints[n])
      uml == Div(ml, sqrt(nplanets))
  IN  << Floor(IF isfinite(ml) THEN ml ELSE Filler),
         Floor(IF isfinite(uml) THEN uml ELSE One) >>

\* self.ceiling = np.amax(mlvalues), over both columns of the array
ceiling_of(mlvalues) ==
  AMax({mlvalues[n][1] : n \in DOMAIN mlvalues} \cup {mlvalues[n][2] : n \in DOMAIN mlvalues})

\* Hierarchy.max_like: the instance after the call
max_like(h) ==
  LET mlvalues == [n \in DOMAIN h.bins |-> MlRow(h, n)]
  IN  [h EXCEPT !.mlvalues = mlvalues, !.ceiling = ceiling_of(mlvalues)]

\* np.digitize(x, edges): the number of edges <= x
digitize(x, edges) == Cardinality({k \in DOMAIN edges : Leq(edges[k], x)})

Clamp(i, hi) == IF i < 0 THEN 0 ELSE IF i > hi THEN hi ELSE i

IndexError == [k |-> "IndexError", n |-> 0, d |-> 1]

\* an occurrence that writes the filler through a view of theta
occurrence_inplace(h, lna, lnm, theta) ==
  LET iao == digitize(lna, h.lna_edges) - 1
      imo == digitize(lnm, h.lnm_edges) - 1
      flat == Clamp(iao, h.nabins - 1) + Clamp(imo, h.nmbins - 1) * h.nabins
      outside == iao < 0 \/ imo < 0 \/ iao > h.nabins - 1 \/ imo > h.nmbins - 1
  IN  IF flat + 1 \notin DOMAIN theta THEN [occur |-> IndexError, theta |-> theta]
      ELSE IF outside THEN [occur |-> Filler, theta |-> [theta EXCEPT ![flat + 1] = Filler]]
      ELSE [occur |-> theta[flat + 1], theta |-> theta]

\* Hierarchy.occurrence(lna, lnm, theta) for one point: what it returns, and
\* the array theta after the call (theta[ia + im*nabins] is an index array
\* lookup, a copy, so the fillers are written to the copy)
occurrence(h, lna, lnm, theta) ==
  LET iao == digitize(lna, h.lna_edges) - 1
      imo == digitize(lnm, h.lnm_edges) - 1
      flat == Clamp(iao, h.nabins - 1) + Clamp(imo, h.nmbins - 1) * h.nabins
      outside == iao < 0 \/ imo < 0 \/ iao > h.nabins - 1 \/ imo > h.nmbins - 1
  IN  IF flat + 1 \notin DOMAIN theta THEN [occur |-> IndexError, theta |-> theta]
      ELSE IF outside THEN [occur |-> Filler, theta |-> theta]
      ELSE [occur |-> theta[flat + 1], theta |-> theta]

RECURSIVE TermsRange(_, _, _, _, _, _, _)
\* the products weight * completeness * occurrence over the points pts[lo..hi]
\* in the order the code evaluates them, and theta after the calls
TermsRange(h, itp, pts, wts, theta, lo, hi) ==
  IF lo > hi THEN [theta |-> theta, terms |-> <<>>]
  ELSE IF lo = hi
  THEN The({ [theta |-> o.theta,
              terms |-> << IF o.occur = IndexError THEN IndexError
                           ELSE Mul(Mul(wts[lo], Evaluate(itp, pts[lo][1], pts[lo][2])),
                                    o.occur) >>] :
             o \in {occurrence(h, pts[lo][1], pts[lo][2], theta)} })
  ELSE The({ The({ [theta |-> right.theta, terms |-> left.terms \o right.terms] :
                   right \in {TermsRange(h, itp, pts, wts, left.theta,
                                         ((lo + hi) \div 2) + 1, hi)} }) :
             left \in {TermsRange(h, itp, pts, wts, theta, lo, (lo + hi) \div 2)} })

Terms(h, itp, pts, wts, theta) ==
  The({ TermsRange(h, itp, p, w, t, 1, Len(p)) : p \in {pts}, w \in {wts}, t \in {theta} })

\* np.sum(theta * self.bin_areas): bin_widths = np.diff(bins) has shape
\* (nbins, 2, 1), so bin_areas has shape (nbins, 1) and its product with theta,
\* of shape (nbins,), is the (nbins, nbins) array of all areas[n]*theta[m]
SumThetaAreas(theta, bin_areas) ==
  LET N == Len(bin_areas)
      M == Len(theta)
  IN  SumSeq([c \in 1..(N * M) |->
                Mul(bin_areas[((c - 1) \div M) + 1], theta[((c - 1) % M) + 1])])

CeilFactor == 10

\* a hard prior without the upper bound on theta
PriorRejects_NoCeiling(h, theta) ==
  \/ h.fraction /\ Greater(Div(SumThetaAreas(theta, h.bin_areas), Num(h.nstars)), One)
  \/ \E n \in DOMAIN theta : Leq(theta[n], Zero)

\* the hard prior of Hierarchy.lnlike: whether it returns -inf before the
\* likelihood is evaluated
PriorRejects(h, theta) ==
  \/ h.fraction /\ Greater(Div(SumThetaAreas(theta, h.bin_areas), Num(h.nstars)), One)
  \/ \E n \in DOMAIN theta :
       Leq(theta[n], Zero) \/ Greater(theta[n], Mul(Num(CeilFactor), h.ceiling))

SubRes == 4

\* the 4 x 4 midpoints of every bin, bin by bin, and their weights area/16
ExpectPoints(h) ==
  [c \in 1..(h.nbins * SubRes * SubRes) |->
     LET binn == h.bins[((c - 1) \div (SubRes * SubRes)) + 1]
         j == ((c - 1) % (SubRes * SubRes)) \div SubRes
         k == (c - 1) % SubRes
     IN  << Add(binn[1][1], Mul(Fin(2 * j + 1, 2 * SubRes), Sub(binn[1][2], binn[1][1]))),
            Add(binn[2][1], Mul(Fin(2 * k + 1, 2 * SubRes), Sub(binn[2][2], binn[2][1]))) >>]

ExpectWeights(h) ==
  [c \in 1..(h.nbins * SubRes * SubRes) |->
     Div(h.bin_areas[((c - 1) \div (SubRes * SubRes)) + 1], Num(SubRes * SubRes))]

\* every posterior sample of every planet, planet by planet
SamplePoints(h) ==
  [c \in 1..(Len(h.pop) * h.nsamples) |->
     h.pop[((c - 1) \div h.nsamples) + 1].samples[((c - 1) % h.nsamples) + 1]]

\* ll = -nexpect + sum(log(sums/nsamples)), -inf when that is not finite.  A
\* finite ll is held by the numbers it is computed from.
LogLike(nexpect, sums) ==
  IF isfinite(nexpect) /\ \A p \in DOMAIN sums : isfinite(sums[p]) /\ Greater(sums[p], Zero)
  THEN [k |-> "ll", nexpect |-> nexpect, sums |-> sums]
  ELSE NInf

\* the end of Hierarchy.lnlike: s and e hold the terms of the sample loop and
\* of the nexpect loop
Likelihood(h, s, e) ==
  LET sums == [p \in DOMAIN h.pop |->
                 SumSeq([k \in 1..h.nsamples |-> s.terms[(p - 1) * h.nsamples + k]])]
      raised == \/ \E c \in DOMAIN s.terms : s.terms[c] = IndexError
                \/ \E c \in DOMAIN e.terms : e.terms[c] = IndexError
  IN  [value |-> IF raised THEN IndexError ELSE LogLike(SumSeq(e.terms), sums),
       stage |-> IF raised THEN "raised" ELSE "likelihood",
       theta |-> e.theta]

\* Hierarchy.lnlike(theta), with itp the interpolator the completeness object
\* holds after its first interpolate call: the value returned (IndexError when
\* a lookup raises), the return statement taken, and theta after the call
lnlike(h, itp, theta) ==
  IF PriorRejects(h, theta)
  THEN [value |-> NInf, stage |-> "prior", theta |-> theta]
  ELSE The({ The({ Likelihood(h, s, e) :
                   e \in {Terms(h, itp, ExpectPoints(h), ExpectWeights(h), s.theta)} }) :
             s \in {Terms(h, itp, SamplePoints(h),
                          [c \in DOMAIN SamplePoints(h) |-> One], theta)} })

---------------------------------------------------------------------------
(* The binned model on its own: a Hierarchy built on a fresh Completeness *)

DensePos == (0..(2 * (GridRes - 1))) \X (0..(2 * (GridRes - 1)))

\* no trials at all; trials everywhere, the inner ones recovered
HierTables ==
  { [call |-> "table", rows |-> [p \in {} |-> [n |-> 0, good |-> 0]]],
    [call |-> "table", rows |-> [p \in DensePos |->
        [n |-> MinBox + 1, good |-> IF p[1] <= 1 THEN MinBox + 1 ELSE 0]]] }

\* a bin table whose bins do not form a full grid
DiagBins ==
  << << <<Num(0), Num(1)>>, <<Num(0), Num(1)>> >>,
     << <<Num(2), Num(3)>>, <<Num(2), Num(3)>> >> >>

HierBinTables ==
  { lngrid(Num(0), Num(2), Num(0), Num(2), r[1], r[2]) :
      r \in {<<1, 1>>, <<2, 1>>, <<1, 2>>, <<2, 2>>} } \cup {DiagBins}

Pt(a, b, c, d) == <<Fin(a, b), Fin(c, d)>>

\* populations: the medians of the planets put 0, 1 or 4 planets in a bin
Pops ==
  { <<>>,
    << [star |-> "A", samples |-> <<Pt(1, 2, 1, 2), Pt(1, 4, 3, 2), Pt(3, 1, 1, 4)>>],
       [star |-> "B", samples |-> <<Pt(5, 2, 1, 2), Pt(5, 2, 5, 2), Pt(3, 1, 3, 1)>>] >>,
    << [star |-> "A", samples |-> <<Pt(3, 2, 3, 2)>>],
       [star |-> "A", samples |-> <<Pt(7, 4, 3, 2)>>],
       [star |-> "B", samples |-> <<Pt(3, 2, 7, 4)>>],
       [star |-> "C", samples |-> <<Pt(5, 3, 5, 4)>>] >> }

\* nstars (0: not given) and the fraction flag
StarOptions == { <<0, FALSE>>, <<1, TRUE>>, <<4, TRUE>> }

ThetaVals == { Zero, Fin(1, 4), Fin(1, 2), Num(40) }

\* theta[n] = n/8: every bin has its own value
Ramp(N) == [n \in 1..N |-> Fin(n, 8)]

\* the vectors equal to w except in at most one place, and the ramp
Thetas(N) ==
  { [n \in 1..N |-> IF n = k THEN v ELSE w] : k \in 1..N, v \in ThetaVals, w \in ThetaVals }
    \cup {Ramp(N)}

PointCoords == { Num(-1), Num(0), Fin(1, 2), Num(1), Fin(3, 2), Num(2), Fin(5, 2), Num(3) }

InitHier ==
  /\ recoveries \in HierTables
  /\ \E pop \in Pops, bins \in HierBinTables, so \in StarOptions :
       \E c \in {HierarchyInit(recoveries, None, pop, bins, 1, so[1],
                                <<Num(0), Num(2 * (GridRes - 1))>>, so[2],
                                GridRes, Num(LogWin), AxisLim)} :
         grid = c.grid /\ interpolator = c.interpolator /\ hier = c.hier
  /\ plaw = None /\ walkers = None /\ ret = None

CallMaxLike ==
  /\ hier # None /\ ret = None
  /\ hier' = max_like(hier)
  /\ ret' = [call |-> "max_like"]
  /\ UNCHANGED <<recoveries, grid, interpolator, plaw, walkers>>

\* one occurrence call on the constructed model
CallOccurrence ==
  /\ hier # None /\ ret = None
  /\ \E lna \in PointCoords, lnm \in PointCoords :
       LET theta == Ramp(hier.nbins)
       IN  ret' = [call |-> "occurrence", lna |-> lna, lnm |-> lnm, theta |-> theta,
                   occur |-> occurrence(hier, lna, lnm, theta).occur]
  /\ UNCHANGED <<recoveries, grid, interpolator, hier, plaw, walkers>>

\* lnlike is called by the sampler, after max_like has set self.ceiling
CallLnlike ==
  /\ hier # None /\ hier.ceiling # None /\ ret.call = "max_like"
  /\ interpolator' = interpolator_after(interpolator, grid, FALSE)
  /\ \E theta \in Thetas(hier.nbins) :
       \E r \in {lnlike(hier, interpolator', theta)} :
         ret' = [call |-> "lnlike", theta |-> theta, value |-> r.value, stage |-> r.stage]
  /\ UNCHANGED <<recoveries, grid, hier, plaw, walkers>>

NextHier == CallMaxLike \/ CallOccurrence \/ CallLnlike

SpecHier == InitHier /\ [][NextHier]_vars

\* the area-weighted sum of theta over the bins: sum_n theta[n]*bin_area[n]
AreaWeightedSum(theta) ==
  SumSeq([n \in DOMAIN theta |->
            Mul(theta[n], Mul(Sub(hier.bins[n][1][2], hier.bins[n][1][1]),
                              Sub(hier.bins[n][2][2], hier.bins[n][2][1])))])

TenCeiling == Mul(Num(CeilFactor), hier.ceiling)

\* C1: lnlike(theta) returns -infinity whenever a component of theta is <= 0,
\* or a component exceeds 10*ceiling, or the fraction flag is set and the
\* area-weighted sum of theta divided by nstars exceeds 1.
C1_PriorRejection ==
  ret.call = "lnlike" =>
    (( \/ \E n \in DOMAIN ret.theta : Leq(ret.theta[n], Zero)
       \/ \E n \in DOMAIN ret.theta : Greater(ret.theta[n], TenCeiling)
       \/ /\ hier.fraction
          /\ Greater(Div(AreaWeightedSum(ret.theta), Num(hier.nstars)), One) )
     => ret.value = NInf)

\* a rejection in fraction mode of a theta of several bins whose components
\* all lie in (0, 10*ceiling]
C1_Witness ==
  /\ ret.call = "lnlike" /\ ret.value = NInf /\ hier.nbins > 1
  /\ \/ /\ hier.fraction
        /\ Greater(Div(AreaWeightedSum(ret.theta), Num(hier.nstars)), One)
        /\ \A n \in DOMAIN ret.theta :
             Greater(ret.theta[n], Zero) /\ Leq(ret.theta[n], TenCeiling)

\* C5 as stated: in fraction mode a theta with every component in
\* (0, 10*ceiling] and area-weighted sum / nstars <= 1 is not rejected by the
\* prior stage.
C5_AsStated ==
  ( /\ ret.call = "lnlike" /\ hier.fraction
    /\ \A n \in DOMAIN ret.theta :
         Greater(ret.theta[n], Zero) /\ Leq(ret.theta[n], TenCeiling)
    /\ Leq(Div(AreaWeightedSum(ret.theta), Num(hier.nstars)), One) )
  => ret.stage # "prior"

\* the occurrence-rate estimate of bin n: median planets in the bin / Qint,
\* 0.01 when that is zero or not finite
Estimate(n) ==
  LET binn == hier.bins[n]
      count == Cardinality({p \in DOMAIN hier.pop_med :
                 /\ Leq(binn[1][1], hier.pop_med[p][1]) /\ Less(hier.pop_med[p][1], binn[1][2])
                 /\ Leq(binn[2][1], hier.pop_med[p][2]) /\ Less(hier.pop_med[p][2], binn[2][2])})
      rate == Div(Num(count), hier.Qints[n])
  IN  IF isfinite(rate) /\ rate # Zero THEN rate ELSE Filler

\* C8 as stated: after max_like, ceiling is the maximum across bins of the
\* per-bin occurrence-rate estimate; it is finite and strictly positive.
C8_AsStated ==
  hier.ceiling # None =>
    /\ isfinite(hier.ceiling) /\ Greater(hier.ceiling, Zero)
    /\ \A n \in DOMAIN hier.bins : Leq(Estimate(n), hier.ceiling)
    /\ \E n \in DOMAIN hier.bins : hier.ceiling = Estimate(n)

\* the raw bin indices of the point of the last occurrence call
RawA == Cardinality({k \in DOMAIN hier.lna_edges : Leq(hier.lna_edges[k], ret.lna)}) - 1
RawM == Cardinality({k \in DOMAIN hier.lnm_edges : Leq(hier.lnm_edges[k], ret.lnm)}) - 1
RawOutside == RawA < 0 \/ RawA > hier.nabins - 1 \/ RawM < 0 \/ RawM > hier.nmbins - 1

\* C2 as stated: occurrence returns the filler 0.01 for a point whose raw bin
\* index is outside 0..nabins-1 or 0..nmbins-1, the theta entry at flat index
\* axis-bin + mass-bin*nabins for every other point, and its array lookup is
\* never out of range.
C2_AsStated ==
  ret.call = "occurrence" =>
    /\ ret.occur # IndexError
    /\ RawOutside => ret.occur = Filler
    /\ ~RawOutside => /\ RawA + RawM * hier.nabins + 1 \in DOMAIN ret.theta
                      /\ ret.occur = ret.theta[RawA + RawM * hier.nabins + 1]

\* the bin tables of the model that lngrid returns
FromLngrid ==
  \E resa \in 1..2, resm \in 1..2 :
    hier.bins = lngrid(Num(0), Num(2), Num(0), Num(2), resa, resm)

\* C6 as stated: on a bin table returned by lngrid, occurrence at a point
\* strictly inside bin n returns theta[n].
C6_AsStated ==
  (ret.call = "occurrence" /\ FromLngrid) =>
    \A n \in DOMAIN hier.bins :
      ( /\ Less(hier.bins[n][1][1], ret.lna) /\ Less(ret.lna, hier.bins[n][1][2])
        /\ Less(hier.bins[n][2][1], ret.lnm) /\ Less(ret.lnm, hier.bins[n][2][2]) )
      => ret.occur = ret.theta[n]

---------------------------------------------------------------------------
(* PowerLaw *)

\* theta[0]*mass**theta[1] is c*exp(e) with e = theta[1]*ln(mass): an
\* occurrence value is held as the pair [c, e], and a sum of such values as
\* the function from each exponent to the sum of its coefficients (zero
\* coefficients left out).  Exponentials of distinct rationals are linearly
\* independent over the rationals, so equal sums are equal functions.
RECURSIVE SumCoef(_, _)
SumCoef(terms, K) ==
  IF K = {} THEN Zero
  ELSE LET k == CHOOSE x \in K : TRUE IN Add(terms[k].c, SumCoef(terms, K \ {k}))

ExpSum(terms) ==
  LET coef(x) == SumCoef(terms, {k \in DOMAIN terms : terms[k].e = x})
      exps    == {terms[k].e : k \in DOMAIN terms}
  IN  [x \in {y \in exps : coef(y) # Zero} |-> coef(x)]

Scale(q, t) == [c |-> Mul(q, t.c), e |-> t.e]

\* PowerLaw.occurrence(mass, theta) for one mass, given by its logarithm
occurrencePL(pl, lnmass, theta) ==
  IF Less(lnmass, pl.edges[2][1]) \/ Geq(lnmass, pl.edges[2][2])
  THEN [c |-> Filler, e |-> Zero]
  ELSE [c |-> theta[1], e |-> Mul(theta[2], lnmass)]

\* the Qints accumulation of PowerLaw.__init__, indexed by the mass index
PLQints_by_mass(itp, edges, lna_res, lnm_res) ==
  LET span     == Sub(edges[2][2], edges[2][1])
      lnawidth == Div(Sub(edges[1][2], edges[1][1]), Num(lna_res))
      lnmwidth == Div(span, Num(lnm_res))
      lna_c(i) == Add(edges[1][1], Mul(Fin(2 * i + 1, 2), lnawidth))
      lnm_c(j) == Add(edges[2][1], Mul(Fin(2 * j + 1, 2), lnmwidth))
  IN  [q \in 1..lnm_res |->
         Div(SumSeq([i \in 1..lna_res |->
                       Mul(Mul(lnawidth, lnmwidth),
                           Evaluate(itp, lna_c(i - 1), lnm_c(q - 1)))]),
             span)]

\* self.Qints after PowerLaw.__init__: an array of length lnm_res in which
\* Qints[i] accumulates, for each axis index i < lna_res, the terms of every
\* mass index j, divided by the ln-mass span; IndexError when lna_res > lnm_res
PLQints(itp, edges, lna_res, lnm_res) ==
  LET span     == Sub(edges[2][2], edges[2][1])
      lnawidth == Div(Sub(edges[1][2], edges[1][1]), Num(lna_res))
      lnmwidth == Div(span, Num(lnm_res))
      lna_c(i) == Add(edges[1][1], Mul(Fin(2 * i + 1, 2), lnawidth))
      lnm_c(j) == Add(edges[2][1], Mul(Fin(2 * j + 1, 2), lnmwidth))
  IN  IF lna_res > lnm_res THEN <<IndexError>>
      ELSE [q \in 1..lnm_res |->
              IF q > lna_res THEN Div(Zero, span)
              ELSE Div(SumSeq([j \in 1..lnm_res |->
                                 Mul(Mul(lnawidth, lnmwidth),
                                     Evaluate(itp, lna_c(q - 1), lnm_c(j - 1)))]),
                       span)]

PLMassLim == <<Num(-1), Num(2 * (GridRes - 1))>>

\* PowerLaw.__init__ after its completeness_grid call and NaN fill
PowerLawOn(g, itp, pop, lna_res, lnm_res, edges) ==
  LET span == Sub(edges[2][2], edges[2][1])
      lnmwidth == Div(span, Num(lnm_res))
      Q    == PLQints(itp, edges, lna_res, lnm_res)
  IN  [grid |-> g,
       interpolator |-> itp,
       plaw |-> [call     |-> IF Q = <<IndexError>> THEN "raised" ELSE "PowerLaw",
                 pop      |-> pop,
                 nsamples |-> IF pop = <<>> THEN 0 ELSE Len(pop[1].samples),
                 lna_res  |-> lna_res,
                 lnm_res  |-> lnm_res,
                 edges    |-> edges,
                 lnm_centers |-> [q \in 1..lnm_res |->
                                    Add(edges[2][1], Mul(Fin(2 * q - 1, 2), lnmwidth))],
                 Qints    |-> Q,
                 mlvalues |-> <<>>]]

\* PowerLaw.__init__: the new values of completeness.grid,
\* completeness.interpolator and the instance (call = "raised" when the
\* constructor raises)
PowerLawInit(rec, itp0, pop, lna_res, lnm_res, edges, gridres, logwin, xlim) ==
  The({ PowerLawOn(g, interpolator_after(itp0, g, FALSE), pop, lna_res, lnm_res, edges) :
        g \in {FillNaN(completeness_grid(rec, xlim, PLMassLim, gridres, logwin, logwin))} })

\* the expected-count loop of PowerLaw.lnlike, run over every mass index
PLExpect_all_masses(pl, theta) ==
  ExpSum([q \in 1..pl.lnm_res |->
            Scale(pl.Qints[q], occurrencePL(pl, pl.lnm_centers[q], theta))])

\* the expected-count loop of PowerLaw.lnlike: for i in np.arange(self.lna_res)
PLExpect(pl, theta) ==
  ExpSum([q \in 1..pl.lna_res |->
            Scale(pl.Qints[q], occurrencePL(pl, pl.lnm_centers[q], theta))])

\* whether a sum of exponential terms is finite and > 0; the thetas of the
\* model have theta[0] >= 0, so the coefficients of a sum share one sign
Positive(es) ==
  /\ DOMAIN es # {}
  /\ \A x \in DOMAIN es : isfinite(es[x]) /\ Greater(es[x], Zero)

FiniteSum(es) == \A x \in DOMAIN es : isfinite(es[x])

\* PowerLaw.lnlike(theta): the value, held by the numbers it is computed from,
\* or -inf when it is not finite
lnlikePL(pl, itp, theta) ==
  LET sums == [p \in DOMAIN pl.pop |->
                 ExpSum([k \in 1..pl.nsamples |->
                           Scale(Evaluate(itp, pl.pop[p].samples[k][1], pl.pop[p].samples[k][2]),
                                 occurrencePL(pl, pl.pop[p].samples[k][2], theta))])]
      nexpect == PLExpect(pl, theta)
  IN  [nexpect |-> nexpect,
       value   |-> IF FiniteSum(nexpect) /\ \A p \in DOMAIN sums : Positive(sums[p])
                   THEN [k |-> "ll", nexpect |-> nexpect, sums |-> sums]
                   ELSE NInf]

\* PowerLaw.lnprior(theta)
lnprior(theta) ==
  IF \/ Leq(theta[1], Zero) \/ Greater(theta[1], Num(10))
     \/ Leq(theta[2], Num(-5)) \/ Greater(theta[2], Num(5))
  THEN NInf ELSE Zero

\* PowerLaw.lnpost(theta) = lnlike(theta) + lnprior(theta)
lnpostPL(pl, itp, theta) ==
  IF lnprior(theta) = NInf THEN NInf ELSE lnlikePL(pl, itp, theta).value

---------------------------------------------------------------------------
(* The power-law model on its own: a PowerLaw built on a fresh Completeness *)

PLEdges == << <<Num(0), Num(2)>>, <<Num(0), Num(2)>> >>
PLRes == { <<1, 1>>, <<1, 2>>, <<2, 1>>, <<2, 2>>, <<2, 3>> }
PLThetas == { <<C, M>> : C \in {Zero, Num(1), Num(20)}, M \in {Num(-1), Zero, Num(6)} }

InitPL ==
  /\ recoveries \in HierTables
  /\ grid = None /\ interpolator = None
  /\ hier = None /\ plaw = None /\ walkers = None /\ ret = None

\* PowerLaw(pop, completeness, lna_res, lnm_res, edges)
ConstructPowerLaw ==
  /\ plaw = None
  /\ \E pop \in Pops, r \in PLRes :
       \E c \in {PowerLawInit(recoveries, interpolator, pop, r[1], r[2], PLEdges,
                             GridRes, Num(LogWin), AxisLim)} :
           grid' = c.grid /\ interpolator' = c.interpolator /\ plaw' = c.plaw
  /\ UNCHANGED <<recoveries, hier, walkers, ret>>

CallLnlikePL ==
  /\ plaw.call = "PowerLaw" /\ ret = None
  /\ interpolator' = interpolator_after(interpolator, grid, FALSE)
  /\ \E theta \in PLThetas :
       \E r \in {lnlikePL(plaw, interpolator', theta)} :
         ret' = [call |-> "PowerLaw.lnlike", theta |-> theta,
                 nexpect |-> r.nexpect, value |-> r.value]
  /\ UNCHANGED <<recoveries, grid, hier, plaw, walkers>>

NextPL == ConstructPowerLaw \/ CallLnlikePL

SpecPL == InitPL /\ [][NextPL]_vars

\* C7 as stated: PowerLaw construction succeeds for every lna_res and lnm_res
\* and leaves, for every mass index j, Qints[j] = the sum over the axis
\* centers i of completeness(i, j)*lnawidth*lnmwidth, divided by the ln-mass
\* span; the expected count of lnlike is the sum over all lnm_res mass centers
\* j of Qints[j]*occurrence(mass center j, theta).
C7_AsStated ==
  plaw # None =>
    /\ plaw.call = "PowerLaw"
    /\ plaw.Qints = PLQints_by_mass(interpolator, plaw.edges, plaw.lna_res, plaw.lnm_res)
    /\ ret.call = "PowerLaw.lnlike" => ret.nexpect = PLExpect_all_masses(plaw, ret.theta)

---------------------------------------------------------------------------
(* The life of one Completeness object and the models built on it *)

NWalkers == 2

LifeTables ==
  { [call |-> "table", rows |-> [p \in {} |-> [n |-> 0, good |-> 0]]],
    [call |-> "table", rows |-> [p \in DensePos |->
        [n |-> MinBox + 1, good |-> IF p[1] <= 1 THEN MinBox + 1 ELSE 0]]] }

\* the population of both models: two planets with samples on both sides of
\* the outer edges of the bins
LifePop ==
  << [star |-> "A", samples |-> <<Pt(1, 2, 1, 2), Pt(1, 4, 3, 2), Pt(3, 1, 1, 4)>>],
     [star |-> "B", samples |-> <<Pt(5, 2, 1, 2), Pt(5, 2, 5, 2), Pt(3, 1, 3, 1)>>] >>

LifeBins ==
  { lngrid(Num(0), Num(2), Num(0), Num(2), 1, 1),
    lngrid(Num(0), Num(2), Num(0), Num(2), 2, 1) }

LifePLRes == { <<1, 1>>, <<2, 2>> }

\* Completeness(recoveries): grid and interpolator are None, no model exists
Init ==
  /\ recoveries \in LifeTables
  /\ grid = None /\ interpolator = None
  /\ hier = None /\ plaw = None /\ walkers = None /\ ret = None

\* completeness.completeness_grid(xlim, ylim) called by the user before a
\* model is built
UserGrid ==
  /\ hier = None /\ plaw = None
  /\ \E ylim \in MassLims :
       grid' = completeness_grid(recoveries, AxisLim, ylim, GridRes, Num(LogWin), Num(LogWin))
  /\ UNCHANGED <<recoveries, interpolator, hier, plaw, walkers, ret>>

\* completeness.interpolate(x, y, refresh) called by the user before a model
\* is built; the assertion fails while there is no grid
UserInterpolate ==
  /\ hier = None /\ plaw = None /\ grid # None
  /\ \E refresh \in BOOLEAN : interpolator' = interpolator_after(interpolator, grid, refresh)
  /\ UNCHANGED <<recoveries, grid, hier, plaw, walkers, ret>>

\* Hierarchy(pop, completeness, res, bins, mass_lim=mass_lim)
NewHierarchy ==
  /\ hier = None /\ walkers = None
  /\ \E bins \in LifeBins, mass_lim \in MassLims :
       \E c \in {HierarchyInit(recoveries, interpolator, LifePop, bins, 1, 0, mass_lim, FALSE,
                              GridRes, Num(LogWin), AxisLim)} :
           grid' = c.grid /\ interpolator' = c.interpolator /\ hier' = c.hier
  /\ UNCHANGED <<recoveries, plaw, walkers, ret>>

\* PowerLaw(pop, completeness, lna_res, lnm_res, edges)
NewPowerLaw ==
  /\ plaw = None /\ walkers = None
  /\ \E r \in LifePLRes :
       \E c \in {PowerLawInit(recoveries, interpolator, LifePop, r[1], r[2], PLEdges,
                             GridRes, Num(LogWin), AxisLim)} :
           grid' = c.grid /\ interpolator' = c.interpolator /\ plaw' = c.plaw
  /\ UNCHANGED <<recoveries, hier, walkers, ret>>

\* Hierarchy.max_like()
HierMaxLike ==
  /\ hier # None /\ hier.ceiling = None
  /\ hier' = max_like(hier)
  /\ UNCHANGED <<recoveries, grid, interpolator, plaw, walkers, ret>>

\* PowerLaw.max_like(): self.mlvalues = np.array([C, M]) with C = 5, M = -1
PLMaxLike ==
  /\ plaw # None /\ plaw.mlvalues = <<>>
  /\ plaw' = [plaw EXCEPT !.mlvalues = <<Num(5), Num(-1)>>]
  /\ UNCHANGED <<recoveries, grid, interpolator, hier, walkers, ret>>

\* the start of sample(): the positions of the walkers are the max-likelihood
\* values plus a jitter, here w/4 for walker w
Sample ==
  /\ walkers = None
  /\ \/ /\ hier # None /\ hier.ceiling # None
        /\ walkers' = [model |-> "Hierarchy",
                       pos |-> [w \in 1..NWalkers |->
                                  [n \in DOMAIN hier.mlvalues |->
                                     Add(hier.mlvalues[n][1], Fin(w, 4))]]]
     \/ /\ plaw # None /\ plaw.mlvalues # <<>>
        /\ walkers' = [model |-> "PowerLaw",
                       pos |-> [w \in 1..NWalkers |->
                                  [n \in DOMAIN plaw.mlvalues |->
                                     Add(plaw.mlvalues[n], Fin(w, 4))]]]
  /\ UNCHANGED <<recoveries, grid, interpolator, hier, plaw, ret>>

\* the value lnpost returned the last time it was evaluated for walker w
Seen(w) == IF ret = None THEN None ELSE ret.seen[w]

\* one evaluation self.lnpost(theta) requested by the sampler for walker w, on
\* the array that holds the walker's position
LnPost(w) ==
  /\ walkers # None
  /\ interpolator' = interpolator_after(interpolator, grid, FALSE)
  /\ \E r \in { IF walkers.model = "Hierarchy"
                THEN lnlike(hier, interpolator', walkers.pos[w])
                ELSE [value |-> lnpostPL(plaw, interpolator', walkers.pos[w]),
                      theta |-> walkers.pos[w]] } :
       /\ walkers' = [walkers EXCEPT !.pos[w] = r.theta]
       /\ ret' = [call |-> "lnpost", w |-> w, value |-> r.value,
                  seen |-> [v \in 1..NWalkers |-> IF v = w THEN r.value ELSE Seen(v)]]
  /\ UNCHANGED <<recoveries, grid, hier, plaw>>

Next ==
  \/ UserGrid \/ UserInterpolate
  \/ NewHierarchy \/ NewPowerLaw
  \/ HierMaxLike \/ PLMaxLike
  \/ Sample
  \/ \E w \in 1..NWalkers : LnPost(w)

Spec == Init /\ [][Next]_vars

\* the interpolator of the grid a constructor called with mass_lim builds and
\* fills
OwnInterpolator(mass_lim) ==
  BuildInterpolator(FillNaN(completeness_grid(recoveries, AxisLim, mass_lim,
                                              GridRes, Num(LogWin), Num(LogWin))))

\* C9 as stated: the completeness values in a model's Qints and in its lnpost
\* evaluations are interpolated from the grid the model's own constructor
\* built and filled, whatever was done with the Completeness object before.
C9_AsStated ==
  /\ hier # None =>
       \A n \in DOMAIN hier.bins :
         hier.Qints[n] = Qint(OwnInterpolator(hier.mass_lim), hier.bins[n],
                              hier.bin_areas[n], hier.res)
  /\ plaw # None =>
       plaw.Qints = PLQints(OwnInterpolator(PLMassLim), plaw.edges, plaw.lna_res, plaw.lnm_res)
  /\ ret.call = "lnpost" =>
       ret.value = IF walkers.model = "Hierarchy"
                   THEN lnlike(hier, OwnInterpolator(hier.mass_lim), walkers.pos[ret.w]).value
                   ELSE lnpostPL(plaw, OwnInterpolator(PLMassLim), walkers.pos[ret.w])

\* C10: an lnpost evaluation leaves the recoveries, the grid, the cached
\* interpolator, both models (Qints, bin geometry, mlvalues, ceiling) and the
\* theta arrays of the walkers unchanged, and returns for a walker the value it
\* returned for that walker before.  The models are built with res >= 1, so
\* the constructor has made the first interpolate call.
C10_LnpostReadOnly ==
  [][ (ret' # ret /\ ret'.call = "lnpost") =>
        /\ UNCHANGED <<recoveries, grid, interpolator, hier, plaw, walkers>>
        /\ Seen(ret'.w) # None => ret'.value = Seen(ret'.w) ]_vars

\* every walker of a binned model with samples outside the bins has been
\* evaluated, the last value being a finite likelihood
C10_Witness ==
  /\ ret.call = "lnpost" /\ walkers.model = "Hierarchy"
  /\ \A w \in 1..NWalkers : ret.seen[w] # None
  /\ ret.value # NInf /\ ret.value # IndexError
  /\ hier.nbins > 1 /\ Len(hier.pop) > 1 /\ plaw # None

===========================================================================
